---- MODULE Spec2Model ----
(***************************************************************************)
(* A state machine for find_horizon_range of                               *)
(* codes/find_horizon_range_network.py: the noise-curve loader, the        *)
(* horizon solver loop, the redshift-shell volume loop and the 50%/90%     *)
(* percentile lookup.                                                      *)
(*                                                                         *)
(* Floating-point quantities are fixed-point integers:                     *)
(*   redshift   in units of 1/Z1 (the solver's redshifts are multiples of  *)
(*              ZStep = 2*n_zstep, so that dz and dz/2 are exact),         *)
(*   distance   in units of 0.1 Mpc,                                       *)
(*   SNR        in units of 1/SnrScale,                                    *)
(*   frequency  in Hz on the waveform grid f0 + i*df with f0 = 0.          *)
(* The external libraries (lalsimulation, cosmolopy, scipy) are modelled   *)
(* by small closed-form functions with the shape of the real ones.         *)
(***************************************************************************)
EXTENDS Integers, Sequences, FiniteSets, TLC

\* ------------------------------------------------------------ bounds
\* number of redshift shells (100 in the source, line 146)
n_zstep == 4
\* solver grid points per 0.1 of redshift (the root-finder's resolution)
ZSub == 2
\* largest redshift the root-finder's grid reaches, in units of 0.1
ZTop == 20
\* waveform frequency step in Hz (1e-2 in the source, line 103)
df == 500
\* SNR fixed-point scale: one unit of SNR is SnrScale
SnrScale == 1000
\* largest number of detectors in a network
MaxDet == 2

\* --------------------------------------------------- program constants
\* snr_th = 12.
snr_th == 12 * SnrScale
\* c/H0 for h = 0.678, in units of 0.1 Mpc
DH == 44217
\* second-order coefficient of D_L(z) = DH*(z + (1-q0)/2 z^2), q0 = Omega_M/2 - Omega_L
DHQ == (DH * 769) \div 1000
\* lower and upper clamp of the usable band, Hz
FLow == 10
FHigh == 5000

ZStep == 2 * n_zstep
\* fine redshift units per unit of redshift; z0 = 0.1 is ZSub solver steps
Z1 == 10 * ZSub * ZStep
z0 == ZSub * ZStep
ZGrid == { k * ZStep : k \in 0 .. (ZTop * ZSub) }

Abs(x) == IF x < 0 THEN -x ELSE x
Max2(a, b) == IF a >= b THEN a ELSE b
Min2(a, b) == IF a <= b THEN a ELSE b

RECURSIVE SumSeq(_)
SumSeq(s) == IF s = <<>> THEN 0 ELSE Head(s) + SumSeq(Tail(s))

RECURSIVE SqrtIter(_, _, _)
SqrtIter(x, lo, hi) ==
    IF lo >= hi THEN lo
    ELSE LET mid == (lo + hi + 1) \div 2
         IN  IF mid * mid <= x THEN SqrtIter(x, mid, hi) ELSE SqrtIter(x, lo, mid - 1)
\* sqrt of numpy, rounded down
sqrt(x) == SqrtIter(x, 0, 46340)

\* ------------------------------------------------- cosmology (cosmolopy)
\* cd.luminosity_distance(z, **cosmo), z in fine units
luminosity_distance(x) == (DH * x) \div Z1 + (((DHQ * x) \div Z1) * x) \div Z1

\* cd.comoving_volume(z, **cosmo): 4/3 pi D_M^3 with D_M = D_L/(1+z), D_M in units of 100 Mpc
comoving_volume(x) ==
    LET dm == (luminosity_distance(x) * Z1) \div ((Z1 + x) * 1000)
    IN  4 * dm * dm * dm

\* ------------------------------------------------------ inputs' domains
Detectors == {"H", "L"}
\* noise curve files: frequency range [lo, hi] in Hz and a flat amplitude spectral density
NoiseFiles ==
    { [lo |-> 5,    hi |-> 8,    asd |-> 1],
      [lo |-> 5,    hi |-> 6000, asd |-> 2],
      [lo |-> 20,   hi |-> 2100, asd |-> 1],
      [lo |-> 1900, hi |-> 6000, asd |-> 1] }
\* total source-frame mass classes (m1, m2)
Masses == {3, 6, 12}
\* antenna-pattern tables pw_<pwfile>.txt: P sampled at w = 0, 1/2, 1
PwTables == { <<10, 5, 0>>, <<10, 10, 10>>, <<0, 0, 0>>, <<0, 10, 0>> }

Networks == UNION { [1 .. n -> Detectors] : n \in 1 .. MaxDet }

\* -------------------------------------------- waveform (lalsimulation)
\* cut-off frequency of a binary of unit redshifted mass, Hz
FCut == 20300
\* strain amplitude at unit distance per unit of redshifted mass
AmpC == 4
\* distance-to-SNR scale of the strain
SnrC == 100000

freq(j) == (j - 1) * df
\* redshifted mass (1+z)*m, rounded down
mz(x, m) == (m * (Z1 + x)) \div Z1

\* get_htildas((1+z)*m1, (1+z)*m2, dist, ...): the strain on the grid
\* freqs = f0 + i*deltaF, non-zero from fmin up to the cut-off; the strain's
\* 1/dist factor is carried in dist.  lalsimulation refuses dist <= 0.
get_htildas(M, dist) ==
    LET n == (FCut \div M) \div df + 1
    IN  [ n    |-> n,
          amp  |-> [j \in 1 .. n |-> IF freq(j) >= FLow THEN AmpC * M ELSE 0],
          dist |-> dist ]

\* F+^2 + Fx^2 of getDetResp at the sample (ra, dec, psi) of the coordinate file
getDetResp(detector) == IF detector = "H" THEN 2 ELSE 1

\* numpy boolean-mask indexing a[mask]: the entries of a where mask is true
RECURSIVE Select(_, _, _)
Select(a, mask, j) ==
    IF j > Len(mask) \/ j > Len(a) THEN <<>>
    ELSE IF mask[j] THEN <<a[j]>> \o Select(a, mask, j + 1)
         ELSE Select(a, mask, j + 1)

\* sum(abs(h_tilda[fsel])**2 / psd_interp), numerator weighted by the response
RECURSIVE SumRatio(_, _, _, _)
SumRatio(h, psd, w, j) ==
    IF j > Len(h) THEN 0
    ELSE (4 * df * w * h[j] * h[j]) \div psd[j] + SumRatio(h, psd, w, j + 1)

RECURSIVE SnrSq(_, _, _, _, _)
SnrSq(h, net, psd, sel, k) ==
    IF k > Len(net) THEN 0
    ELSE SumRatio(Select(h.amp, sel[k], 1), psd[k], getDetResp(net[k]), 1)
         + SnrSq(h, net, psd, sel, k + 1)

\* compute_horizonSNR(hplus_tilda, hcross_tilda, network, ra, dec, psi, psd_interp, fsel, df)
compute_horizonSNR(h, net, psd, sel) ==
    (sqrt(SnrSq(h, net, psd, sel, 1)) * SnrC) \div h.dist

\* logical_and(freqs > minimum_freq, freqs < maximum_freq) on a grid of n points
Mask(n, fmin, fmax) == [j \in 1 .. n |-> freq(j) > fmin /\ freq(j) < fmax]

\* interp1d(input_freq, strain**2) of a noise file, evaluated at the selected
\* frequencies; interp1d raises ValueError outside [lo, hi]
InRange(file, mask) == \A j \in 1 .. Len(mask) : mask[j] => (file.lo <= freq(j) /\ freq(j) <= file.hi)
Interp(file, mask) == Select([j \in 1 .. Len(mask) |-> file.asd * file.asd], mask, 1)

\* ------------------------------------------------------------- state
VARIABLES
    m, network, asdfile, pw,                      \* the call's arguments
    minimum_freq, maximum_freq, psdinterp_dict,   \* noise model
    freqs, fsel, psd_interp,                      \* grid length, masks, PSD samples
    input_dist, input_snr, input_redshift,
    guess_dist, guess_snr, guess_redshift,
    horizon_redshift, z, dz, i, unit_volume,      \* shell loop
    vol_sum, z50, z90, result,
    pc, err

args   == <<m, network, asdfile, pw>>
noise  == <<minimum_freq, maximum_freq, psdinterp_dict>>
wave   == <<freqs, fsel, psd_interp>>
solver == <<input_dist, input_snr, input_redshift, guess_dist, guess_snr, guess_redshift>>
shells == <<horizon_redshift, z, dz, i, unit_volume>>
out    == <<vol_sum, z50, z90, result>>
vars   == <<args, noise, wave, solver, shells, out, pc, err>>

N == Len(network)

Init ==
    /\ m \in Masses
    /\ network \in Networks
    /\ asdfile \in [1 .. Len(network) -> NoiseFiles]
    /\ pw \in PwTables
    /\ minimum_freq = <<>> /\ maximum_freq = <<>> /\ psdinterp_dict = <<>>
    /\ freqs = 0 /\ fsel = <<>> /\ psd_interp = <<>>
    /\ input_dist = 0 /\ input_snr = 0 /\ input_redshift = 0
    /\ guess_dist = 0 /\ guess_snr = 0 /\ guess_redshift = 0
    /\ horizon_redshift = 0 /\ z = <<>> /\ dz = 0 /\ i = 0 /\ unit_volume = <<>>
    /\ vol_sum = 0 /\ z50 = 0 /\ z90 = 0 /\ result = <<>>
    /\ pc = "load" /\ err = "none"

\* an exception leaves find_horizon_range
Raise(e) == pc' = "error" /\ err' = e

\* ------------------------------------------------ noise model, lines 107-113
\* psdinterp_dict[network[detector]] = interp1d(...): the last file stored under an identifier
LastFileOf(id) ==
    LET k == CHOOSE k \in 1 .. N :
                 /\ network[k] = id
                 /\ \A j \in 1 .. N : network[j] = id => j <= k
    IN  asdfile[k]

LoadNoise ==
    /\ pc = "load"
    /\ minimum_freq' = [k \in 1 .. N |-> Max2(FLow, asdfile[k].lo)]
    /\ maximum_freq' = [k \in 1 .. N |-> Min2(FHigh, asdfile[k].hi)]
    /\ psdinterp_dict' = [id \in { network[k] : k \in 1 .. N } |-> LastFileOf(id)]
    /\ pc' = "seed"
    /\ UNCHANGED <<args, wave, solver, shells, out, err>>

\* the masks and PSD samples of lines 119-122 / 132-135 for a grid of n points
Masks(n) == [k \in 1 .. N |-> Mask(n, minimum_freq[k], maximum_freq[k])]
PsdInRange(masks) == \A k \in 1 .. N : InRange(psdinterp_dict[network[k]], masks[k])
Psds(masks) == [k \in 1 .. N |-> Interp(psdinterp_dict[network[k]], masks[k])]

\* ------------------------------------------- initial guess, lines 115-125
Seed ==
    /\ pc = "seed"
    /\ \E h \in { get_htildas(mz(z0, m), luminosity_distance(z0)) } :
       \E ms \in { Masks(h.n) } :
           IF ~PsdInRange(ms)
           THEN /\ Raise("ValueError")
                /\ UNCHANGED <<wave, solver>>
           ELSE /\ freqs' = h.n
                /\ fsel' = ms
                /\ psd_interp' = Psds(ms)
                /\ input_dist' = h.dist
                /\ input_snr' = compute_horizonSNR(h, network, psd_interp', fsel')
                /\ input_redshift' = z0
                /\ guess_snr' = 0
                /\ UNCHANGED <<guess_dist, guess_redshift>>
                /\ pc' = "solve" /\ UNCHANGED err
    /\ UNCHANGED <<args, noise, shells, out>>

\* ------------------------------------------------ horizon solver, lines 42-50
\* cd.luminosity_distance on the solver's grid
DLTab == [x \in ZGrid |-> luminosity_distance(x)]

\* findzfromDL(z, DL)
findzfromDL(x, DL) == DL - DLTab[x]

\* leastsq(findzfromDL, z0, args=DL): the redshifts of the solver's grid whose
\* residual is least (|r| orders the grid as r^2 does); the status flag that
\* leastsq returns beside them is dropped by the caller
leastsq(seed, DL) ==
    { x \in ZGrid : \A y \in ZGrid : Abs(findzfromDL(x, DL)) <= Abs(findzfromDL(y, DL)) }

\* horizon_dist_eval(orig_dist, snr, z0): the (guess_redshift, guess_dist) pairs it can return
horizon_dist_eval(orig_dist, snr, seed) ==
    LET guess == (orig_dist * snr) \div snr_th
    IN  { <<x, guess>> : x \in leastsq(seed, guess) }

\* while abs(guess_snr-snr_th) > snr_th*0.001
LoopCond(snr) == Abs(snr - snr_th) * 1000 > snr_th

\* one iteration of the while loop, lines 127-140
SolverStep ==
    /\ pc = "solve"
    /\ LoopCond(guess_snr)
    /\ \E g \in horizon_dist_eval(input_dist, input_snr, input_redshift) :
         IF g[2] <= 0
         THEN /\ Raise("RuntimeError")
              /\ UNCHANGED <<wave, solver>>
         ELSE \E h \in { get_htildas(mz(g[1], m), g[2]) } :
              \E ms \in { Masks(h.n) } :
                 IF ~PsdInRange(ms)
                 THEN /\ Raise("ValueError")
                      /\ UNCHANGED <<wave, solver>>
                 ELSE /\ freqs' = h.n
                      /\ fsel' = ms
                      /\ psd_interp' = Psds(ms)
                      /\ guess_redshift' = g[1]
                      /\ guess_dist' = g[2]
                      /\ guess_snr' = compute_horizonSNR(h, network, psd_interp', fsel')
                      /\ input_snr' = guess_snr'
                      /\ input_redshift' = g[1]
                      /\ input_dist' = g[2]
                      /\ UNCHANGED <<pc, err>>
    /\ UNCHANGED <<args, noise, shells, out>>

\* the loop is left, lines 141-150
SolverExit ==
    /\ pc = "solve"
    /\ ~LoopCond(guess_snr)
    /\ horizon_redshift' = guess_redshift
    /\ dz' = Abs((0 - guess_redshift) \div n_zstep)
    /\ z' = [k \in 1 .. n_zstep |-> guess_redshift - (k - 1) * (guess_redshift \div n_zstep)]
    /\ i' = 0
    /\ unit_volume' = [k \in 1 .. n_zstep |-> 0]
    /\ pc' = "shells"
    /\ UNCHANGED <<args, noise, wave, solver, out, err>>

\* ------------------------------------------- volume integral, lines 144-158
\* spacing of the w samples of the antenna-pattern table, in units of w
WStep == 50

\* P = interp1d(w_sample, P_sample, bounds_error=False, fill_value=0.0) at
\* w = snr_th/optsnr_z: linear between the samples, 0 outside them (w = inf
\* when optsnr_z = 0)
P(table, optsnr) ==
    IF optsnr = 0 THEN 0
    ELSE LET w == (snr_th * (Len(table) - 1) * WStep) \div optsnr
             k == w \div WStep
             r == w % WStep
         IN  IF k > Len(table) - 1 \/ (k = Len(table) - 1 /\ r > 0) THEN 0
             ELSE IF r = 0 THEN table[k + 1]
             ELSE (table[k + 1] * (WStep - r) + table[k + 2] * r) \div WStep

\* (cd.comoving_volume(z+dz/2.) - cd.comoving_volume(z-dz/2.)) / (1.+z) * P(w)
UnitVolume(zc, halfdz, p) ==
    (((comoving_volume(zc + halfdz) - comoving_volume(zc - halfdz)) * 10)
        \div ((10 * (Z1 + zc)) \div Z1)) * p

\* a boolean mask of another length than the indexed array: numpy of the
\* source's time selects with the mask as far as the array goes (and warns),
\* later numpy raises IndexError
MaskFits(mask, n) == \A j \in 1 .. Len(mask) : mask[j] => j <= n

\* one pass of the shell loop, lines 151-158: fsel and psd_interp are appended
\* to, not reset, so entries 1..N are still those of the solver's last waveform
ShellStep ==
    /\ pc = "shells"
    /\ i < n_zstep
    /\ \E zi \in { z[i + 1] } :
       IF luminosity_distance(zi) <= 0
       THEN /\ Raise("RuntimeError")
            /\ UNCHANGED <<wave, i, unit_volume>>
       ELSE \E h \in { get_htildas(mz(zi, m), luminosity_distance(zi)) } :
            \/ /\ \A k \in 1 .. N : MaskFits(fsel[k], h.n)
               /\ freqs' = h.n
               /\ fsel' = fsel \o Masks(h.n)
               /\ psd_interp' = psd_interp
                      \o [k \in 1 .. N |-> Interp(psdinterp_dict[network[k]], fsel[k])]
               /\ \E optsnr_z \in { compute_horizonSNR(h, network, psd_interp', fsel') } :
                     unit_volume' = [unit_volume EXCEPT
                                       ![i + 1] = UnitVolume(zi, dz \div 2, P(pw, optsnr_z))]
               /\ i' = i + 1
               /\ UNCHANGED <<pc, err>>
            \/ /\ \E k \in 1 .. N : Len(fsel[k]) # h.n
               /\ Raise("IndexError")
               /\ UNCHANGED <<wave, i, unit_volume>>
    /\ UNCHANGED <<args, noise, solver, horizon_redshift, z, dz, out>>

\* --------------------------------------------------- percentiles, lines 160-164
\* cumsum(unit_volume)
RECURSIVE cumsum(_)
cumsum(s) ==
    IF s = <<>> THEN <<>>
    ELSE LET c == cumsum(SubSeq(s, 1, Len(s) - 1))
         IN  Append(c, (IF c = <<>> THEN 0 ELSE c[Len(c)]) + s[Len(s)])

SetMax(S) == CHOOSE x \in S : \A y \in S : y <= x

\* z[where(cumsum(unit_volume) >= frac*vol_sum)] with frac = num/den
Where(zs, vols, num, den) ==
    { zs[k] : k \in { j \in 1 .. Len(zs) : den * cumsum(vols)[j] >= num * SumSeq(vols) } }

\* the 90% lookup with the threshold 0.9*vol_sum in place of 0.1*vol_sum
Percentile90At09(zs, vols) == Where(zs, vols, 9, 10)

Percentile50(zs, vols) == Where(zs, vols, 5, 10)
Percentile90(zs, vols) == Where(zs, vols, 1, 10)

Percentiles ==
    /\ pc = "shells"
    /\ i = n_zstep
    /\ vol_sum' = SumSeq(unit_volume)
    /\ IF Percentile50(z, unit_volume) = {} \/ Percentile90(z, unit_volume) = {}
       THEN /\ Raise("ValueError")
            /\ UNCHANGED <<z50, z90, result>>
       ELSE /\ z50' = SetMax(Percentile50(z, unit_volume))
            /\ z90' = SetMax(Percentile90(z, unit_volume))
            /\ result' = << horizon_redshift,
                            luminosity_distance(horizon_redshift),
                            luminosity_distance(z50'),
                            luminosity_distance(z90'),
                            vol_sum' >>
            /\ pc' = "done" /\ UNCHANGED err
    /\ UNCHANGED <<args, noise, wave, solver, shells>>

Next == LoadNoise \/ Seed \/ SolverStep \/ SolverExit \/ ShellStep \/ Percentiles

Spec == Init /\ [][Next]_vars

\* the while loop runs its next iteration, and leaves once its condition fails
FairSpec == Spec /\ WF_vars(SolverStep) /\ WF_vars(SolverExit)

\* ------------------------------------------------------- properties

\* the network SNR of a source at redshift x and distance d, with the masks
\* and PSD samples of that waveform's own frequency grid (lines 128-136)
SnrAt(x, d) ==
    LET h  == get_htildas(mz(x, m), d)
        ms == Masks(h.n)
    IN  compute_horizonSNR(h, network, Psds(ms), ms)

\* the loop has just been left
LoopLeft == pc = "shells" /\ i = 0

C2_SolverTerminates == (pc = "solve") ~> (pc \in {"shells", "error"})

\* C3 (as stated): for every returned result,
\* distance_90pct <= distance_50pct <= horizon luminosity distance.
C3_Stated ==
    pc = "done" => (result[4] <= result[3] /\ result[3] <= result[2])

\* C3 (as the code has it): for every returned result,
\* distance_50pct <= distance_90pct <= horizon luminosity distance.
C3_Ordering ==
    pc = "done" => (result[3] <= result[4] /\ result[4] <= result[2])

\* a result of a positive volume whose 50% distance is below its 90% distance
C3_Witness ==
    pc = "done" /\ vol_sum > 0 /\ result[3] < result[4] /\ result[4] <= result[2]

\* the weighted volume of the shells whose redshift is at most x
RECURSIVE InnerFrom(_, _)
InnerFrom(x, k) ==
    IF k > Len(z) THEN 0
    ELSE (IF z[k] <= x THEN unit_volume[k] ELSE 0) + InnerFrom(x, k + 1)

\* the shells up to redshift x hold at least tenths/10 of the total volume
Encloses(x, tenths) == 10 * InnerFrom(x, 1) >= tenths * vol_sum

\* C4: the shells with redshift <= z50 hold at least 50% of the total
\* detectable volume, those with redshift <= z90 at least 90%, and z50 and
\* z90 are each the lowest-redshift shell for which this holds.
C4_EnclosedFractions ==
    pc = "done" =>
        /\ Encloses(z50, 5)
        /\ Encloses(z90, 9)
        /\ \A k \in 1 .. Len(z) :
              /\ Encloses(z[k], 5) => z50 <= z[k]
              /\ Encloses(z[k], 9) => z90 <= z[k]

\* some mask handed to compute_horizonSNR selects no frequency
EmptyMask == \E k \in 1 .. Len(fsel) : \A j \in 1 .. Len(fsel[k]) : ~fsel[k][j]

\* C5: if a detector's valid-frequency mask is empty the SNR computation
\* fails with an error: no SNR is ever computed, and no result returned,
\* from an empty mask.
C5_EmptyBandFails ==
    pc \in {"solve", "shells", "done"} => ~EmptyMask

\* C6: if the total detectable volume is zero or negative an error is raised
\* instead of 50%/90% distances being returned.
C6_DegenerateVolumeFails ==
    pc = "done" => vol_sum > 0

\* C7: at every position k of the network the SNR is computed with the PSD
\* interpolant of noise file k and the frequency bounds of noise file k, also
\* when a detector identifier occurs at several positions.
C7_NetworkOrderAlignment ==
    pc = "solve" =>
        \A k \in 1 .. N :
            /\ fsel[k] = Mask(freqs, Max2(FLow, asdfile[k].lo), Min2(FHigh, asdfile[k].hi))
            /\ psd_interp[k] = Interp(asdfile[k], fsel[k])

\* C8: the masks and PSD samples handed to the SNR computation of shell i
\* (positions 1..N of fsel and psd_interp) are those of shell i's own
\* waveform frequency grid.
C8_ShellOwnGrid ==
    (pc \in {"shells", "done"} /\ i > 0) =>
        \A k \in 1 .. N :
            /\ fsel[k] = Mask(freqs, minimum_freq[k], maximum_freq[k])
            /\ psd_interp[k] = Interp(psdinterp_dict[network[k]],
                                      Mask(freqs, minimum_freq[k], maximum_freq[k]))

\* C9: the n_zstep shells [z_k - dz/2, z_k + dz/2] of width
\* dz = horizon_redshift/n_zstep do not overlap, lie inside
\* [0, horizon_redshift], and their union is [0, horizon_redshift].
C9_ShellsPartition ==
    pc \in {"shells", "done"} =>
        /\ dz * n_zstep = horizon_redshift
        /\ \A k \in 1 .. Len(z) :
              /\ 0 <= z[k] - dz \div 2
              /\ z[k] + dz \div 2 <= horizon_redshift
        /\ \A k \in 1 .. Len(z) - 1 : z[k + 1] + dz \div 2 = z[k] - dz \div 2
        /\ z[1] + dz \div 2 = horizon_redshift
        /\ z[Len(z)] - dz \div 2 = 0

====
